---- MODULE Spec2Model ----
(***************************************************************************)
(* A model of json_tui: the arena-backed Tree of src/src/node.rs (its      *)
(* construction, the two cursor moves, the two toggles, the renderer and   *)
(* the line locator) and the event loop of src/src/main.rs (the scroll     *)
(* controller).                                                            *)
(*                                                                         *)
(* Conventions.                                                            *)
(*  - A slotmap key is the insertion index of the node (1, 2, ...): no     *)
(*    node is ever removed, so keys are never reused.  Option<DefaultKey>  *)
(*    is a key or None (0).                                                *)
(*  - A Rust string is the sequence of the pieces between its '\n'         *)
(*    characters: "ab" is <<"ab">>, "[\n" is <<"[", "">>, "" is <<"">>.    *)
(*    str::lines, Text::raw and format! are computed on that form, so the  *)
(*    number of lines of a rendering is derived, not assumed.              *)
(*  - The enums NodeType / HidableValue / NonTerminalNode are flattened    *)
(*    into one record with a tag and every payload field present (TLC      *)
(*    compares records field by field).                                    *)
(*  - A sequence built element by element is written <<>> \o [i \in ..],   *)
(*    which TLC holds as a tuple.                                          *)
(*  - A panic (unwrap on None) aborts the program: panicked becomes TRUE   *)
(*    and no operation is enabled afterwards.                              *)
(***************************************************************************)
EXTENDS Integers, Sequences, FiniteSets, TLC

(* ------------------------------ bounds -------------------------------- *)

\* Largest number of nodes of a document explored by SpecTree.
MaxNodes == 4

\* Largest number of nodes of a document explored by SpecRun.
MaxRunNodes == 3

\* Largest height (rows) of the content area handed to the draw closure.
MaxLayoutHeight == 4

(* ------------------------------ strings ------------------------------- *)

None == 0

Str(s) == <<s>>

\* "\n"
NL == <<"", "">>

\* String concatenation (format! / push_str) on the piece form.
Cat(a, b) ==
    SubSeq(a, 1, Len(a) - 1) \o <<a[Len(a)] \o b[1]>> \o SubSeq(b, 2, Len(b))

\* str::lines: one item per line, a final empty line is not produced.
str_lines(s) ==
    IF s[Len(s)] = "" THEN SubSeq(s, 1, Len(s) - 1) ELSE s

RECURSIVE str_repeat(_, _)
str_repeat(s, n) == IF n = 0 THEN Str("") ELSE Cat(s, str_repeat(s, n - 1))

\* Tree::INDENT
INDENT == Str("  ")

(* --------------------------- document values -------------------------- *)

\* serde_json::Value.  s is the text of a scalar (the Display form of a
\* number or boolean, the content of a string).
Scalar(t, s) == [type |-> t, s |-> s, array |-> <<>>, object |-> <<>>]
ArrayValue(items) == [type |-> "Array", s |-> Str(""), array |-> items, object |-> <<>>]
ObjectValue(entries) == [type |-> "Object", s |-> Str(""), array |-> <<>>, object |-> entries]

\* The scalars the explored documents are built from: a number and a string
\* holding a line break ("a\nb" once parsed).
Terminals == { Scalar("Number", Str("1")), Scalar("String", <<"a", "b">>) }

\* The keys of an object's entries, by position (a serde_json Map has no
\* duplicate keys).
KeyNames == <<"a", "b", "c", "d", "e", "f", "g">>

WithKeys(f) == <<>> \o [i \in 1..Len(f) |-> <<Str(KeyNames[i]), f[i]>>]

RECURSIVE ValuesN(_), Forests(_)

\* The documents with exactly n nodes.
ValuesN(n) ==
    (IF n = 1 THEN Terminals ELSE {})
    \cup { ArrayValue(f) : f \in Forests(n - 1) }
    \cup { ObjectValue(WithKeys(f)) : f \in Forests(n - 1) }

\* The sequences of documents with n nodes in total.
Forests(n) ==
    IF n = 0 THEN { <<>> }
    ELSE UNION { { <<v>> \o f : v \in ValuesN(k), f \in Forests(n - k) } : k \in 1..n }

Documents(max) == UNION { ValuesN(n) : n \in 1..max }

(* ------------------------------ the arena ----------------------------- *)

\* struct Node, with NodeType / HidableValue / NonTerminalNode flattened.
TerminalNode(parent, v) ==
    [parent |-> parent, highlighted |-> FALSE, tag |-> "Terminal", value |-> v,
     visible |-> TRUE, kind |-> "None", array |-> <<>>, object |-> <<>>]

NonTerminal(parent, kind) ==
    [parent |-> parent, highlighted |-> FALSE, tag |-> "NonTerminal",
     value |-> Scalar("Null", Str("")),
     visible |-> TRUE, kind |-> kind, array |-> <<>>, object |-> <<>>]

\* SlotMap::insert: the arena is the sequence of the nodes in insertion
\* order and the key of a node is its index.
insert(sm, node) == [key |-> Len(sm) + 1, slot_map |-> Append(sm, node)]

RECURSIVE value_to_key(_, _, _), array_children(_, _, _, _, _), object_children(_, _, _, _, _)

\* The loop `for v in array` of value_to_key: the children are inserted one
\* after the other and their keys pushed to vec.
array_children(items, i, sm, parent_key, vec) ==
    IF i > Len(items) THEN [slot_map |-> sm, vec |-> vec]
    ELSE LET r == value_to_key(items[i], sm, parent_key)
         IN  array_children(items, i + 1, r.slot_map, parent_key, Append(vec, r.key))

\* The loop `for (k, v) in map` of value_to_key.
object_children(entries, i, sm, parent_key, vec) ==
    IF i > Len(entries) THEN [slot_map |-> sm, vec |-> vec]
    ELSE LET r == value_to_key(entries[i][2], sm, parent_key)
         IN  object_children(entries, i + 1, r.slot_map, parent_key,
                             Append(vec, <<entries[i][1], r.key>>))

value_to_key(value, sm, parent) ==
    CASE value.type = "Object" ->
            LET p == insert(sm, NonTerminal(parent, "Object"))
                c == object_children(value.object, 1, p.slot_map, p.key, <<>>)
            IN  [key |-> p.key,
                 slot_map |-> [c.slot_map EXCEPT ![p.key].object = c.vec]]
      [] value.type = "Array" ->
            LET p == insert(sm, NonTerminal(parent, "Array"))
                c == array_children(value.array, 1, p.slot_map, p.key, <<>>)
            IN  [key |-> p.key,
                 slot_map |-> [c.slot_map EXCEPT ![p.key].array = c.vec]]
      [] OTHER -> insert(sm, TerminalNode(parent, value))

\* Tree::highlight_current_node
highlight_current_node(sm, cur) == [sm EXCEPT ![cur].highlighted = TRUE]

\* from_value without the call of highlight_current_node: a fault C9 detects.
from_value_unhighlighted(v) ==
    LET r == value_to_key(v, <<>>, None)
    IN  [root |-> r.key, slot_map |-> r.slot_map, current_node |-> r.key]

\* Tree::from_value
from_value(v) ==
    LET r == value_to_key(v, <<>>, None)
    IN  [root |-> r.key,
         slot_map |-> highlight_current_node(r.slot_map, r.key),
         current_node |-> r.key]

\* is_visible answering true for every node (the flag of a composite is not
\* read, so that the moves enter a collapsed composite): a fault C20 detects.
is_visible_always(node) == TRUE

\* Node::is_visible
is_visible(node) == IF node.tag = "Terminal" THEN TRUE ELSE node.visible

(* ------------------------------ traversal ----------------------------- *)

\* The values of an object's entries, in order.
object_keys(obj) == <<>> \o [i \in 1..Len(obj) |-> obj[i][2]]

\* Iterator::position, as an index from 1; None when no element is key.
position(seq, key) ==
    IF \E i \in 1..Len(seq) : seq[i] = key
    THEN CHOOSE i \in 1..Len(seq) : seq[i] = key /\ \A j \in 1..(i - 1) : seq[j] # key
    ELSE None

\* NonTerminalNode::find_next_key
find_next_key(node, key) ==
    IF node.kind = "Array"
    THEN LET i == position(node.array, key)
         IN  IF i # None /\ i < Len(node.array) THEN node.array[i + 1] ELSE None
    ELSE LET i == position(object_keys(node.object), key)
         IN  IF i # None /\ i < Len(node.object) THEN node.object[i + 1][2] ELSE None

\* find_previous_key with the bound of the index off by one (the second
\* child is taken to have no previous sibling): a fault C2 detects.
find_previous_key_skips_second(node, key) ==
    IF node.kind = "Array"
    THEN LET i == position(node.array, key)
         IN  IF i # None /\ i > 2 THEN node.array[i - 1] ELSE None
    ELSE LET i == position(object_keys(node.object), key)
         IN  IF i # None /\ i > 2 THEN node.object[i - 1][2] ELSE None

\* NonTerminalNode::find_previous_key
find_previous_key(node, key) ==
    IF node.kind = "Array"
    THEN LET i == position(node.array, key)
         IN  IF i # None /\ i > 1 THEN node.array[i - 1] ELSE None
    ELSE LET i == position(object_keys(node.object), key)
         IN  IF i # None /\ i > 1 THEN node.object[i - 1][2] ELSE None

\* HidableValue::find_last / NonTerminalNode::find_last.  The last element of
\* an array is an Option; the last entry of an object is unwrapped.
find_last(node) ==
    IF node.kind = "Array"
    THEN [key |-> IF Len(node.array) = 0 THEN None ELSE node.array[Len(node.array)],
          panic |-> FALSE]
    ELSE IF Len(node.object) = 0
         THEN [key |-> None, panic |-> TRUE]
         ELSE [key |-> node.object[Len(node.object)][2], panic |-> FALSE]

RECURSIVE next_sibling_upward(_, _)

\* The loop of the Terminal arm and of the collapsed arm of next_node_down
\* (the two arms hold the same code): the first following sibling found while
\* walking from current_key toward the root.  A parent is a NonTerminal by
\* construction (value_to_key), so the unreachable!() arm is left out.
next_sibling_upward(sm, current_key) ==
    LET node == sm[current_key]
        next_key == IF node.parent = None THEN None
                    ELSE find_next_key(sm[node.parent], current_key)
    IN  IF next_key # None THEN next_key
        ELSE IF node.parent = None THEN None
        ELSE next_sibling_upward(sm, node.parent)

\* The last arm of the match of next_node_down: the first child of an
\* expanded composite.  The first entry of an object is unwrapped.
first_child(node) ==
    IF node.kind = "Array"
    THEN [key |-> IF Len(node.array) = 0 THEN None ELSE node.array[1], panic |-> FALSE]
    ELSE IF Len(node.object) = 0
         THEN [key |-> None, panic |-> TRUE]
         ELSE [key |-> node.object[1][2], panic |-> FALSE]

\* The result of an operation of Tree: the fields it leaves, the value it
\* returns, and whether it panicked (the fields are then those at the panic).
Outcome(sm, cur, r, p) == [slot_map |-> sm, current_node |-> cur, ret |-> r, panic |-> p]

\* next_node_down without the clearing of the highlight of the node the
\* cursor leaves: a fault C3 detects.
next_node_down_keeps_highlight(sm, cur) ==
    LET node == sm[cur]
        next_key ==
            IF node.tag = "Terminal"
            THEN [key |-> next_sibling_upward(sm, cur), panic |-> FALSE]
            ELSE IF ~is_visible(node)
            THEN [key |-> next_sibling_upward(sm, cur), panic |-> FALSE]
            ELSE first_child(node)
        new_cur == IF next_key.key # None THEN next_key.key ELSE cur
    IN  IF next_key.panic
        THEN Outcome(sm, cur, None, TRUE)
        ELSE Outcome([sm EXCEPT ![new_cur].highlighted = TRUE], new_cur,
                     next_key.key, FALSE)

\* next_node_down walking upward from an expanded composite without children
\* as from a leaf (the cursor can then move past such a node while it is
\* expanded): a change C16 detects.
next_node_down_walks_up_from_empty(sm, cur) ==
    LET sm1 == [sm EXCEPT ![cur].highlighted = FALSE]
        node == sm1[cur]
        next_key ==
            IF node.tag = "Terminal"
            THEN [key |-> next_sibling_upward(sm1, cur), panic |-> FALSE]
            ELSE IF ~is_visible(node)
            THEN [key |-> next_sibling_upward(sm1, cur), panic |-> FALSE]
            ELSE IF Len(node.array) = 0 /\ Len(node.object) = 0
            THEN [key |-> next_sibling_upward(sm1, cur), panic |-> FALSE]
            ELSE first_child(node)
        new_cur == IF next_key.key # None THEN next_key.key ELSE cur
    IN  IF next_key.panic
        THEN Outcome(sm1, cur, None, TRUE)
        ELSE Outcome([sm1 EXCEPT ![new_cur].highlighted = TRUE], new_cur,
                     next_key.key, FALSE)

\* Tree::next_node_down
next_node_down(sm, cur) ==
    LET sm1 == [sm EXCEPT ![cur].highlighted = FALSE]
        node == sm1[cur]
        next_key ==
            IF node.tag = "Terminal"
            THEN [key |-> next_sibling_upward(sm1, cur), panic |-> FALSE]
            ELSE IF ~is_visible(node)
            THEN [key |-> next_sibling_upward(sm1, cur), panic |-> FALSE]
            ELSE first_child(node)
        new_cur == IF next_key.key # None THEN next_key.key ELSE cur
    IN  IF next_key.panic
        THEN Outcome(sm1, cur, None, TRUE)
        ELSE Outcome([sm1 EXCEPT ![new_cur].highlighted = TRUE], new_cur,
                     next_key.key, FALSE)

\* The loop of next_node_up leaving at its first turn (the previous sibling
\* itself is taken, expanded or not): a fault C14 detects.
last_descendant_stops_at_sibling(sm, cur, previous_key) ==
    IF previous_key = None
    THEN [key |-> sm[cur].parent, panic |-> FALSE, empty_last |-> FALSE]
    ELSE [key |-> previous_key, panic |-> FALSE, empty_last |-> FALSE]

RECURSIVE last_descendant(_, _, _)

\* The loop of next_node_up: from the previous sibling down through the last
\* children, stopping at a terminal or at a collapsed composite; with no
\* candidate the result is the parent of the current node.  empty_last
\* records that find_last was asked for the last child of a composite that
\* has none.
last_descendant(sm, cur, previous_key) ==
    IF previous_key = None
    THEN [key |-> sm[cur].parent, panic |-> FALSE, empty_last |-> FALSE]
    ELSE LET node == sm[previous_key]
         IN  IF node.tag = "Terminal"
             THEN [key |-> previous_key, panic |-> FALSE, empty_last |-> FALSE]
             ELSE IF ~is_visible(node)
             THEN [key |-> previous_key, panic |-> FALSE, empty_last |-> FALSE]
             ELSE LET t == find_last(node)
                  IN  IF t.panic
                      THEN [key |-> None, panic |-> TRUE, empty_last |-> TRUE]
                      ELSE LET r == last_descendant(sm, cur, t.key)
                           IN  [r EXCEPT !.empty_last = r.empty_last \/ t.key = None]

\* The first step of next_node_up: a collapsed parent itself, else the
\* previous sibling of the current node.
previous_key_of(sm, cur) ==
    LET parent == sm[cur].parent
    IN  IF parent = None THEN None
        ELSE IF ~is_visible(sm[parent]) THEN parent
        ELSE find_previous_key(sm[parent], cur)

\* next_node_up flipping the flag of the node it leaves instead of clearing
\* it (a node left unhighlighted by the toggle is highlighted on leaving
\* it): a fault C21 detects.
next_node_up_toggles_highlight(sm, cur) ==
    LET sm1 == [sm EXCEPT ![cur].highlighted = ~sm[cur].highlighted]
        next_key == last_descendant(sm1, cur, previous_key_of(sm1, cur))
        new_cur == IF next_key.key # None THEN next_key.key ELSE cur
    IN  IF next_key.panic
        THEN Outcome(sm1, cur, None, TRUE)
        ELSE Outcome([sm1 EXCEPT ![new_cur].highlighted = TRUE], new_cur,
                     next_key.key, FALSE)

\* Tree::next_node_up
next_node_up(sm, cur) ==
    LET sm1 == [sm EXCEPT ![cur].highlighted = FALSE]
        next_key == last_descendant(sm1, cur, previous_key_of(sm1, cur))
        new_cur == IF next_key.key # None THEN next_key.key ELSE cur
    IN  IF next_key.panic
        THEN Outcome(sm1, cur, None, TRUE)
        ELSE Outcome([sm1 EXCEPT ![new_cur].highlighted = TRUE], new_cur,
                     next_key.key, FALSE)

\* toggle_current_node_visibility without the match on the node type (the
\* flag of a terminal is flipped too): a fault C8 detects.
toggle_current_node_visibility_any(sm, cur) ==
    [sm EXCEPT ![cur].visible = ~sm[cur].visible]

\* Tree::toggle_current_node_visibility (HidableValue::toggle_visibility)
toggle_current_node_visibility(sm, cur) ==
    IF sm[cur].tag = "Terminal" THEN sm
    ELSE [sm EXCEPT ![cur].visible = ~sm[cur].visible]

\* Tree::toggle_current_node_highlight
toggle_current_node_highlight(sm, cur) ==
    [sm EXCEPT ![cur].highlighted = ~sm[cur].highlighted]

(* ------------------------------ rendering ----------------------------- *)

\* ratatui Text: a sequence of lines, a line a sequence of spans.  A span
\* carries its content, whether it is styled white-on-dark-gray (hl), and
\* node, the node whose call of to_text_inner created it (an annotation the
\* program does not hold, used to find a node's lines in the rendering).
Span(c, node) == [content |-> c, hl |-> FALSE, node |-> node]

\* Line::raw on one line of text: an empty line holds no span.
line_raw(l, node) == IF l = "" THEN <<>> ELSE <<Span(l, node)>>

\* Text::raw: one Line for each item of str::lines.
text_raw(s, node) ==
    LET ls == str_lines(s) IN <<>> \o [i \in 1..Len(ls) |-> line_raw(ls[i], node)]

\* Text::push_span for each span of spans: onto the last line, or onto a
\* new line when the text has none.
push_spans(a, spans) ==
    IF Len(spans) = 0 THEN a
    ELSE IF Len(a) = 0 THEN <<spans>>
    ELSE [a EXCEPT ![Len(a)] = @ \o spans]

\* join_text: the first line of b continues the last line of a, the other
\* lines of b follow.  (b always holds a line: see to_text_inner.)
join_text(a, b) == push_spans(a, b[1]) \o SubSeq(b, 2, Len(b))

RECURSIVE line_string(_, _), text_string(_, _)

line_string(line, i) ==
    IF i > Len(line) THEN Str("") ELSE Cat(Str(line[i].content), line_string(line, i + 1))

\* Display for Text (the `{indent}` of format!): the lines, '\n' between them.
text_string(text, i) ==
    IF i > Len(text) THEN Str("")
    ELSE IF i = Len(text) THEN line_string(text[i], 1)
    ELSE Cat(line_string(text[i], 1), Cat(NL, text_string(text, i + 1)))

\* The restyling limited to the first line of ret (the lines of the
\* children of an expanded composite keep their style): a fault C12 detects.
highlight_text_first_line(ret) ==
    <<>> \o [i \in 1..Len(ret) |->
                <<>> \o [j \in 1..Len(ret[i]) |->
                            [ret[i][j] EXCEPT !.hl = (i = 1) \/ ret[i][j].hl]]]

\* The restyling of a highlighted node: every span of every line of ret.
highlight_text(ret) ==
    <<>> \o [i \in 1..Len(ret) |->
                <<>> \o [j \in 1..Len(ret[i]) |-> [ret[i][j] EXCEPT !.hl = TRUE]]]

RECURSIVE to_text_inner(_, _, _), array_text(_, _, _, _, _, _), object_text(_, _, _, _, _, _)

\* The loop over the elements of an expanded array in to_text_inner.
array_text(sm, indent_level, current_node, array, i, ret) ==
    IF i > Len(array) THEN ret
    ELSE LET indent == text_raw(str_repeat(INDENT, indent_level), current_node)
             tmp == join_text(indent, to_text_inner(sm, indent_level, array[i]))
             ret1 == ret \o tmp
             sep == IF i = Len(array)
                    THEN text_raw(Cat(NL, Cat(str_repeat(INDENT, indent_level - 1), Str("]"))),
                                  current_node)
                    ELSE text_raw(Cat(Str(","), NL), current_node)
         IN  array_text(sm, indent_level, current_node, array, i + 1, join_text(ret1, sep))

\* The loop over the entries of an expanded object in to_text_inner.
object_text(sm, indent_level, current_node, map, i, ret) ==
    IF i > Len(map) THEN ret
    ELSE LET indent == text_raw(str_repeat(INDENT, indent_level), current_node)
             label == Cat(text_string(indent, 1),
                          Cat(Str("\""), Cat(map[i][1], Str("\": "))))
             ret1 == ret \o text_raw(label, current_node)
             ret2 == join_text(ret1, to_text_inner(sm, indent_level, map[i][2]))
             sep == IF i = Len(map)
                    THEN text_raw(Cat(NL, Cat(str_repeat(INDENT, indent_level - 1), Str("}"))),
                                  current_node)
                    ELSE text_raw(Cat(Str(","), NL), current_node)
         IN  object_text(sm, indent_level, current_node, map, i + 1, join_text(ret2, sep))

\* Tree::to_text_inner
to_text_inner(sm, indent_level, current_node) ==
    LET node == sm[current_node]
        ret ==
            IF node.tag = "Terminal"
            THEN CASE node.value.type = "String" ->
                        text_raw(Cat(Str("\""), Cat(node.value.s, Str("\""))), current_node)
                   [] node.value.type = "Null" -> text_raw(Str("{{}}"), current_node)
                   [] OTHER -> text_raw(node.value.s, current_node)
            ELSE IF node.visible
            THEN IF node.kind = "Array"
                 THEN array_text(sm, indent_level + 1, current_node, node.array, 1,
                                 text_raw(Cat(Str("["), NL), current_node))
                 ELSE object_text(sm, indent_level + 1, current_node, node.object, 1,
                                  text_raw(Cat(Str("{"), NL), current_node))
            ELSE IF node.kind = "Array"
            THEN text_raw(Str("[...]"), current_node)
            ELSE text_raw(Str("{...}"), current_node)
    IN  IF node.highlighted THEN highlight_text(ret) ELSE ret

\* Tree::to_text
to_text(sm, rt) == to_text_inner(sm, 0, rt)

(* ----------------------------- line locator --------------------------- *)

\* The result of find_line_recursive: the Option<usize> it returns and the
\* value it leaves in *line_counter.
Located(n, counter) == [some |-> TRUE, n |-> n, counter |-> counter]
NotLocated(counter) == [some |-> FALSE, n |-> 0, counter |-> counter]

RECURSIVE find_line_recursive(_, _, _, _), find_line_children(_, _, _, _, _)

\* The loop over the children in find_line_recursive (the Array arm and the
\* Object arm hold the same code over the children's keys).
find_line_children(sm, cur, keys, i, line_counter) ==
    IF i > Len(keys) THEN NotLocated(line_counter)
    ELSE LET r == find_line_recursive(sm, cur, line_counter, keys[i])
         IN  IF r.some THEN r
             ELSE find_line_children(sm, cur, keys, i + 1,
                                     IF i < Len(keys) THEN r.counter + 1 ELSE r.counter)

\* Tree::find_line_recursive
find_line_recursive(sm, cur, line_counter, current_node) ==
    IF current_node = cur THEN Located(line_counter, line_counter)
    ELSE LET node == sm[current_node]
         IN  IF node.tag = "Terminal" THEN NotLocated(line_counter)
             ELSE LET keys == IF node.kind = "Array" THEN node.array
                              ELSE object_keys(node.object)
                      r == find_line_children(sm, cur, keys, 1, line_counter + 1)
                  IN  IF r.some THEN r ELSE NotLocated(r.counter + 1)

\* Tree::find_current_line
find_current_line(sm, rt, cur) ==
    LET r == find_line_recursive(sm, cur, 0, rt)
    IN  IF r.some THEN r.n ELSE r.counter

(* -------------------------------- state ------------------------------- *)

\* content: the document handed to from_value.  root, slot_map,
\* current_node: the fields of Tree.  op, ret: the operation of Tree called
\* last and the value it returned.  panicked: the program has aborted.
VARIABLES content, root, slot_map, current_node, op, ret, panicked

\* The locals of run (src/src/main.rs): pc is the place in the loop ("draw":
\* before terminal.draw, "event": waiting in event::read, "done": returned).
VARIABLES pc, scroll_y, up_clamp, bot_clamp, scroll_y_max, total_height,
          current_line, number_of_lines

treeVars == <<content, root, slot_map, current_node, op, ret, panicked>>

runVars == <<pc, scroll_y, up_clamp, bot_clamp, scroll_y_max, total_height,
             current_line, number_of_lines>>

vars == <<treeVars, runVars>>

\* let mut tree = Tree::from_value(content), and the locals set before the loop.
Construct(docs) ==
    /\ content \in docs
    /\ LET t == from_value(content)
       IN  /\ root = t.root
           /\ slot_map = t.slot_map
           /\ current_node = t.current_node
    /\ op = "from_value"
    /\ ret = None
    /\ panicked = FALSE
    /\ pc = "draw"
    /\ scroll_y = 0
    /\ up_clamp = 0
    /\ bot_clamp = 0
    /\ scroll_y_max = 0
    /\ total_height = 0
    /\ current_line = 0
    /\ number_of_lines = 0

InitTree == Construct(Documents(MaxNodes))

\* The effect of a call of a move on the fields of Tree.
Apply(o, name) ==
    /\ slot_map' = o.slot_map
    /\ current_node' = o.current_node
    /\ ret' = o.ret
    /\ panicked' = o.panic
    /\ op' = name
    /\ UNCHANGED <<content, root>>

\* A call of tree.next_node_down()
MoveDown ==
    /\ ~panicked
    /\ Apply(next_node_down(slot_map, current_node), "next_node_down")
    /\ UNCHANGED runVars

\* A call of tree.next_node_up()
MoveUp ==
    /\ ~panicked
    /\ Apply(next_node_up(slot_map, current_node), "next_node_up")
    /\ UNCHANGED runVars

\* A call of tree.toggle_current_node_visibility()
ToggleVisibility ==
    /\ ~panicked
    /\ slot_map' = toggle_current_node_visibility(slot_map, current_node)
    /\ op' = "toggle_current_node_visibility"
    /\ ret' = None
    /\ UNCHANGED <<content, root, current_node, panicked>>
    /\ UNCHANGED runVars

\* A call of tree.toggle_current_node_highlight()
ToggleHighlight ==
    /\ ~panicked
    /\ slot_map' = toggle_current_node_highlight(slot_map, current_node)
    /\ op' = "toggle_current_node_highlight"
    /\ ret' = None
    /\ UNCHANGED <<content, root, current_node, panicked>>
    /\ UNCHANGED runVars

(* ------------------------------ event loop ---------------------------- *)

\* `as u16`
U16(n) == n % 65536

\* usize::saturating_sub / u16::saturating_sub
saturating_sub(a, b) == IF a > b THEN a - b ELSE 0

\* The heights of the content area (layout.height, borders included) the
\* terminal can have at a frame.  The closure subtracts the two border rows.
LayoutHeights == 2..MaxLayoutHeight

\* The pass of the loop without the clamping of scroll_y in the draw closure:
\* a fault C10 detects.
Draw_without_clamp ==
    /\ pc = "draw"
    /\ ~panicked
    /\ current_line' = find_current_line(slot_map, root, current_node)
    /\ number_of_lines' = Len(to_text(slot_map, root))
    /\ \E height \in LayoutHeights :
          LET th == height - 2
              first_third == th \div 3
              second_third == first_third * 2
          IN  /\ total_height' = th
              /\ up_clamp' = first_third + scroll_y
              /\ bot_clamp' = second_third + scroll_y
              /\ scroll_y_max' = U16(saturating_sub(number_of_lines', th))
    /\ scroll_y' = scroll_y
    /\ pc' = "event"
    /\ UNCHANGED treeVars

\* The pass of the loop with second_third taken as two thirds of the height
\* instead of twice first_third: a fault C13 detects.
Draw_two_thirds ==
    /\ pc = "draw"
    /\ ~panicked
    /\ current_line' = find_current_line(slot_map, root, current_node)
    /\ number_of_lines' = Len(to_text(slot_map, root))
    /\ \E height \in LayoutHeights :
          LET th == height - 2
              first_third == th \div 3
              second_third == (th * 2) \div 3
          IN  /\ total_height' = th
              /\ up_clamp' = first_third + scroll_y
              /\ bot_clamp' = second_third + scroll_y
              /\ scroll_y_max' = U16(saturating_sub(number_of_lines', th))
    /\ scroll_y' = IF scroll_y > scroll_y_max' THEN scroll_y_max' ELSE scroll_y
    /\ pc' = "event"
    /\ UNCHANGED treeVars

\* One pass of the loop up to event::read: the line of the cursor and the
\* number of lines are taken from the tree, then the draw closure sets the
\* thresholds from the scroll offset it finds, and clamps the offset.
Draw ==
    /\ pc = "draw"
    /\ ~panicked
    /\ current_line' = find_current_line(slot_map, root, current_node)
    /\ number_of_lines' = Len(to_text(slot_map, root))
    /\ \E height \in LayoutHeights :
          LET th == height - 2
              first_third == th \div 3
              second_third == first_third * 2
          IN  /\ total_height' = th
              /\ up_clamp' = first_third + scroll_y
              /\ bot_clamp' = second_third + scroll_y
              /\ scroll_y_max' = U16(saturating_sub(number_of_lines', th))
    /\ scroll_y' = IF scroll_y > scroll_y_max' THEN scroll_y_max' ELSE scroll_y
    /\ pc' = "event"
    /\ UNCHANGED treeVars

\* KeyCode::Char('q')
KeyQuit ==
    /\ pc = "event"
    /\ pc' = "done"
    /\ UNCHANGED <<treeVars, scroll_y, up_clamp, bot_clamp, scroll_y_max, total_height,
                   current_line, number_of_lines>>

\* KeyCode::Char('h')
KeyHighlight ==
    /\ pc = "event"
    /\ slot_map' = toggle_current_node_highlight(slot_map, current_node)
    /\ op' = "toggle_current_node_highlight"
    /\ ret' = None
    /\ pc' = "draw"
    /\ UNCHANGED <<content, root, current_node, panicked>>
    /\ UNCHANGED <<scroll_y, up_clamp, bot_clamp, scroll_y_max, total_height,
                   current_line, number_of_lines>>

\* KeyCode::Up
KeyUp ==
    /\ pc = "event"
    /\ LET o == next_node_up(slot_map, current_node)
       IN  /\ Apply(o, "next_node_up")
           /\ scroll_y' =
                 IF ~o.panic /\ current_line < up_clamp
                 THEN saturating_sub(scroll_y, U16(saturating_sub(up_clamp, current_line)))
                 ELSE scroll_y
    /\ pc' = "draw"
    /\ UNCHANGED <<up_clamp, bot_clamp, scroll_y_max, total_height,
                   current_line, number_of_lines>>

\* KeyCode::Down
KeyDown ==
    /\ pc = "event"
    /\ LET o == next_node_down(slot_map, current_node)
       IN  /\ Apply(o, "next_node_down")
           /\ scroll_y' =
                 IF ~o.panic /\ current_line > bot_clamp
                 THEN LET moved == U16(scroll_y + U16(saturating_sub(current_line, bot_clamp)))
                      IN  IF moved > scroll_y_max THEN scroll_y_max ELSE moved
                 ELSE scroll_y
    /\ pc' = "draw"
    /\ UNCHANGED <<up_clamp, bot_clamp, scroll_y_max, total_height,
                   current_line, number_of_lines>>

\* KeyCode::Enter
KeyEnter ==
    /\ pc = "event"
    /\ slot_map' = toggle_current_node_visibility(slot_map, current_node)
    /\ op' = "toggle_current_node_visibility"
    /\ ret' = None
    /\ pc' = "draw"
    /\ UNCHANGED <<content, root, current_node, panicked>>
    /\ UNCHANGED <<scroll_y, up_clamp, bot_clamp, scroll_y_max, total_height,
                   current_line, number_of_lines>>

\* Any other key, a key release, or an event that is not a key (a resize):
\* the loop goes round.
OtherEvent ==
    /\ pc = "event"
    /\ pc' = "draw"
    /\ UNCHANGED <<treeVars, scroll_y, up_clamp, bot_clamp, scroll_y_max, total_height,
                   current_line, number_of_lines>>

InitRun == Construct(Documents(MaxRunNodes))

NextRun ==
    \/ Draw
    \/ KeyQuit
    \/ KeyHighlight
    \/ KeyUp
    \/ KeyDown
    \/ KeyEnter
    \/ OtherEvent

SpecRun == InitRun /\ [][NextRun]_vars

NextTree ==
    \/ MoveDown
    \/ MoveUp
    \/ ToggleVisibility
    \/ ToggleHighlight

SpecTree == InitTree /\ [][NextTree]_vars

(* ------------------------------- claims ------------------------------- *)

Nodes == 1..Len(slot_map)

Moves == {"next_node_down", "next_node_up"}

\* The keys of the children of a node, in order (none for a terminal).
ChildKeys(node) ==
    IF node.tag = "Terminal" THEN <<>>
    ELSE IF node.kind = "Array" THEN node.array ELSE object_keys(node.object)

Expanded(node) == node.tag = "NonTerminal" /\ node.visible
Collapsed(node) == node.tag = "NonTerminal" /\ ~node.visible

RECURSIVE VisibleOrder(_, _), VisibleForest(_, _, _)

\* The visible order of the subtree of k: depth-first pre-order, a collapsed
\* composite contributing itself and none of its descendants.
VisibleOrder(sm, k) ==
    <<k>> \o (IF Expanded(sm[k]) THEN VisibleForest(sm, ChildKeys(sm[k]), 1) ELSE <<>>)

VisibleForest(sm, keys, i) ==
    IF i > Len(keys) THEN <<>>
    ELSE VisibleOrder(sm, keys[i]) \o VisibleForest(sm, keys, i + 1)

RECURSIVE DownWalk(_, _, _)

\* The nodes the cursor occupies when next_node_down is called again and
\* again from cur until it returns None (at most fuel calls), and whether a
\* call panicked instead of returning.
DownWalk(sm, cur, fuel) ==
    LET d == next_node_down(sm, cur)
    IN  IF d.panic THEN [seq |-> <<cur>>, panic |-> TRUE]
        ELSE IF d.ret = None \/ fuel = 0 THEN [seq |-> <<cur>>, panic |-> FALSE]
        ELSE LET w == DownWalk(d.slot_map, d.current_node, fuel - 1)
             IN  [seq |-> <<cur>> \o w.seq, panic |-> w.panic]

\* C1: whatever the expanded/collapsed flags, with the cursor at the root,
\* calling next_node_down until it returns None makes the cursor occupy
\* exactly the visible order (every node of it once, no node below a
\* collapsed composite).
C1_DownWalkIsVisibleOrder ==
    (~panicked /\ current_node = root) =>
        LET w == DownWalk(slot_map, root, Len(slot_map))
        IN  ~w.panic /\ w.seq = VisibleOrder(slot_map, root)

\* C2: the two moves are inverses: when next_node_down returns a handle, a
\* next_node_up called right after brings the cursor back, and when
\* next_node_up returns a handle, a next_node_down called right after brings
\* the cursor back.
C2_MovesAreInverse ==
    ~panicked =>
        LET d == next_node_down(slot_map, current_node)
            u == next_node_up(slot_map, current_node)
        IN  /\ (~d.panic /\ d.ret # None) =>
                  LET b == next_node_up(d.slot_map, d.current_node)
                  IN  ~b.panic /\ b.ret = current_node /\ b.current_node = current_node
            /\ (~u.panic /\ u.ret # None) =>
                  LET b == next_node_down(u.slot_map, u.current_node)
                  IN  ~b.panic /\ b.ret = current_node /\ b.current_node = current_node

\* A move has just brought the cursor from the last node of a nested
\* composite to the sibling that follows the composite: next_node_up from
\* here descends through last children.
C2_Witness ==
    /\ ~panicked
    /\ op = "next_node_down"
    /\ ret # None
    /\ LET u == next_node_up(slot_map, current_node)
       IN  /\ ~u.panic
           /\ u.ret # None
           /\ slot_map[u.ret].parent # slot_map[current_node].parent
           /\ u.ret # slot_map[current_node].parent
           /\ next_node_down(u.slot_map, u.current_node).ret = current_node

Highlighted == { k \in Nodes : slot_map[k].highlighted }

\* C3: after construction and after every call of a move that returns,
\* exactly one node is highlighted, the current node.
C3_OneHighlightedAfterMove ==
    (~panicked /\ op \in Moves \cup {"from_value"}) => Highlighted = {current_node}

\* A move has taken the cursor to a node other than the root.
C3_Witness ==
    /\ ~panicked
    /\ op = "next_node_up"
    /\ ret # None
    /\ current_node # root
    /\ Len(slot_map) >= 3

\* C4: a move always returns (a handle or None), also in a document that
\* holds an empty array or an empty object: the program never aborts.
C4_MovesAlwaysReturn == ~panicked

\* The lines of a rendering that hold a span created for node k.
LinesOf(text, k) ==
    { i \in 1..Len(text) : \E j \in 1..Len(text[i]) : text[i][j].node = k }

\* C5: the index find_current_line returns is the index, in the rendering
\* of the whole tree, of the first line of the current node.
C5_LocatorMatchesRenderer ==
    ~panicked =>
        LET ls == LinesOf(to_text(slot_map, root), current_node)
        IN  /\ ls # {}
            /\ \A i \in ls : find_current_line(slot_map, root, current_node) + 1 <= i
            /\ find_current_line(slot_map, root, current_node) + 1 \in ls

\* C6: the locator counts a collapsed composite as one line: a move from a
\* collapsed composite to its next sibling adds one to the index; and
\* collapsing a composite leaves the index of the composite and of every
\* node before it (the keys are in document order) as it was.
C6_CollapsedCountsOneLine ==
    [][ /\ ( /\ op' = "next_node_down"
             /\ ~panicked'
             /\ ret' # None
             /\ Collapsed(slot_map[current_node])
             /\ slot_map[ret'].parent = slot_map[current_node].parent )
           => find_current_line(slot_map', root', current_node')
                 = find_current_line(slot_map, root, current_node) + 1
        /\ ( /\ op' = "toggle_current_node_visibility"
             /\ Expanded(slot_map[current_node])
             /\ Collapsed(slot_map'[current_node]) )
           => \A n \in 1..current_node :
                 find_current_line(slot_map', root', n) = find_current_line(slot_map, root, n)
      ]_vars

\* C7: a move that returns None changes nothing: the current node and every
\* flag of every node are as before the call.
C7_FailedMoveChangesNothing ==
    [][ (op' \in Moves /\ ~panicked' /\ ret' = None)
            => (current_node' = current_node /\ slot_map' = slot_map) ]_vars

\* C8: toggle_current_node_visibility flips the visible flag of the current
\* node when it is a composite and does nothing when it is a terminal; the
\* current node, the root, every other field of every node and every other
\* node are unchanged.
C8_ToggleVisibilityFrame ==
    [][ op' = "toggle_current_node_visibility" =>
          /\ current_node' = current_node
          /\ root' = root
          /\ Len(slot_map') = Len(slot_map)
          /\ \A k \in Nodes :
                slot_map'[k] =
                    IF k = current_node /\ slot_map[k].tag = "NonTerminal"
                    THEN [slot_map[k] EXCEPT !.visible = ~slot_map[k].visible]
                    ELSE slot_map[k]
      ]_vars

\* The toggle has collapsed a composite that has children.
C8_Witness ==
    /\ op = "toggle_current_node_visibility"
    /\ Collapsed(slot_map[current_node])
    /\ Len(ChildKeys(slot_map[current_node])) >= 2
    /\ current_node # root

RECURSIVE value_of(_, _), values_of(_, _, _)

\* The document a subtree of the arena stands for, children in the order of
\* the child list.
value_of(sm, k) ==
    LET node == sm[k]
    IN  IF node.tag = "Terminal" THEN node.value
        ELSE IF node.kind = "Array"
        THEN ArrayValue(values_of(sm, node.array, 1))
        ELSE LET vs == values_of(sm, object_keys(node.object), 1)
             IN  ObjectValue(<<>> \o [i \in 1..Len(vs) |-> <<node.object[i][1], vs[i]>>])

values_of(sm, keys, i) ==
    IF i > Len(keys) THEN <<>>
    ELSE <<value_of(sm, keys[i])>> \o values_of(sm, keys, i + 1)

\* The number of places of the child list of p that hold k.
Occurrences(p, k) ==
    Cardinality({ i \in 1..Len(ChildKeys(slot_map[p])) : ChildKeys(slot_map[p])[i] = k })

\* C9: right after from_value the current node is the root, the root alone
\* is highlighted, every composite is expanded, the root has no parent,
\* every other node is held once by the child list of its parent and by no
\* other child list, and the children are in document order.
C9_Construction ==
    op = "from_value" =>
        /\ current_node = root
        /\ Highlighted = {root}
        /\ \A k \in Nodes : slot_map[k].visible
        /\ slot_map[root].parent = None
        /\ \A k \in Nodes \ {root} :
              /\ slot_map[k].parent \in Nodes
              /\ slot_map[slot_map[k].parent].tag = "NonTerminal"
              /\ \A p \in Nodes :
                    Occurrences(p, k) = IF p = slot_map[k].parent THEN 1 ELSE 0
        /\ value_of(slot_map, root) = content

\* A freshly built tree with a composite nested in a composite.
C9_Witness ==
    /\ op = "from_value"
    /\ Len(slot_map) >= 4
    /\ \E k \in Nodes :
          /\ k # root
          /\ Len(ChildKeys(slot_map[k])) >= 1
          /\ Len(ChildKeys(slot_map[root])) >= 2

\* max(0, total_lines - H)
MaxScroll(total_lines, h) == IF total_lines > h THEN total_lines - h ELSE 0

\* C10: the scroll offset is within [0, max(0, total_lines - H)], with
\* total_lines the number of lines of the rendering of the tree as it is:
\* at every painted frame, and after the Up and Down handlers.
C10_ScrollWithinBounds ==
    /\ pc = "event" =>
          /\ 0 <= scroll_y
          /\ scroll_y <= MaxScroll(Len(to_text(slot_map, root)), total_height)
    /\ (pc = "draw" /\ op \in Moves) =>
          /\ 0 <= scroll_y
          /\ scroll_y <= MaxScroll(Len(to_text(slot_map, root)), total_height)

\* The Down handler has scrolled the view to its last position.
C10_Witness ==
    /\ pc = "draw"
    /\ op = "next_node_down"
    /\ ~panicked
    /\ scroll_y > 0
    /\ scroll_y = MaxScroll(Len(to_text(slot_map, root)), total_height)

\* The thresholds of the band for a content height h and a scroll offset s,
\* as the draw closure computes them.
Upper(h, s) == h \div 3 + s
Lower(h, s) == (h \div 3) * 2 + s

\* The line of the current node, from the locator.
L == find_current_line(slot_map, root, current_node)

\* C11: the cursor stays in the band.  After the Down key is handled, if
\* the new offset is below its maximum, the line of the current node is at
\* most lower (taken with the new offset); after the Up key, if the new
\* offset is above 0, the line is at least upper; and the offset changes
\* only when the line had left the band (taken with the old offset).
C11_CursorStaysInBand ==
    [][ /\ (KeyDown /\ ~panicked') =>
              /\ scroll_y' < MaxScroll(Len(to_text(slot_map', root')), total_height')
                    => L' <= Lower(total_height', scroll_y')
              /\ scroll_y' # scroll_y => L' > Lower(total_height, scroll_y)
        /\ (KeyUp /\ ~panicked') =>
              /\ scroll_y' > 0 => L' >= Upper(total_height', scroll_y')
              /\ scroll_y' # scroll_y => L' < Upper(total_height, scroll_y)
      ]_vars

\* The spans of a rendering.
SpansOf(text) == UNION { { text[i][j] : j \in 1..Len(text[i]) } : i \in 1..Len(text) }

RECURSIVE AncestorsOrSelf(_, _)

\* A node and its ancestors up to the root.
AncestorsOrSelf(sm, k) ==
    IF sm[k].parent = None THEN {k} ELSE {k} \cup AncestorsOrSelf(sm, sm[k].parent)

\* C12 (as claimed): a highlighted node inverts its own lines only: what a
\* node emits is styled by that node's highlighted flag, so the lines of an
\* unhighlighted child of a highlighted expanded composite are not inverted.
C12_HighlightOwnLinesOnly ==
    \A sp \in SpansOf(to_text(slot_map, root)) : sp.hl = slot_map[sp.node].highlighted

\* C12 (amended): a highlighted node inverts every line of its rendering,
\* those of its descendants included: what a node emits is inverted exactly
\* when the node or one of its ancestors is highlighted.
C12_HighlightCoversSubtree ==
    \A sp \in SpansOf(to_text(slot_map, root)) :
        sp.hl = (\E a \in AncestorsOrSelf(slot_map, sp.node) : slot_map[a].highlighted)

\* The cursor is on an expanded composite, below the root, whose children
\* are rendered inverted although not highlighted themselves.
C12_Witness ==
    /\ ~panicked
    /\ op \in Moves
    /\ current_node # root
    /\ Expanded(slot_map[current_node])
    /\ slot_map[current_node].highlighted
    /\ \E sp \in SpansOf(to_text(slot_map, root)) :
          /\ slot_map[sp.node].parent = current_node
          /\ ~slot_map[sp.node].highlighted
          /\ sp.hl
    /\ \E sp \in SpansOf(to_text(slot_map, root)) : sp.node = root /\ ~sp.hl

\* C13 (as claimed): the thresholds a frame sets are upper = floor(H/3) + S
\* and lower = floor(2H/3) + S, for the content height H of the frame and the
\* scroll offset S the frame finds.
C13_ThresholdsTwoThirds ==
    [][ Draw => /\ up_clamp' = total_height' \div 3 + scroll_y
                /\ bot_clamp' = (2 * total_height') \div 3 + scroll_y ]_vars

\* C13 (amended): upper = floor(H/3) + S and lower = 2 * floor(H/3) + S, with
\* S the scroll offset the frame finds (before the frame clamps it).
C13_ThresholdsTwiceOneThird ==
    [][ Draw => /\ up_clamp' = total_height' \div 3 + scroll_y
                /\ bot_clamp' = 2 * (total_height' \div 3) + scroll_y ]_vars

\* A frame of content height 2 (where floor(2H/3) = 1 and 2 * floor(H/3) = 0)
\* drawn with the view scrolled.
C13_Witness ==
    /\ pc = "event"
    /\ total_height = 2
    /\ scroll_y > 0
    /\ bot_clamp = scroll_y
    /\ up_clamp = scroll_y

\* The place of k in a sequence of distinct keys (0 when absent).
IndexIn(seq, k) == IF \E i \in 1..Len(seq) : seq[i] = k
                   THEN CHOOSE i \in 1..Len(seq) : seq[i] = k
                   ELSE 0

RECURSIVE DeepestLast(_, _)

\* The last node of the visible order of the subtree of k: k itself when it
\* is a terminal, a collapsed composite or a composite without children,
\* else the same of its last child.
DeepestLast(sm, k) ==
    IF Expanded(sm[k]) /\ Len(ChildKeys(sm[k])) > 0
    THEN DeepestLast(sm, ChildKeys(sm[k])[Len(ChildKeys(sm[k]))])
    ELSE k

\* The sibling just before k in the child list of its parent (None if k is
\* the root or a first child).
PreviousSibling(sm, k) ==
    IF sm[k].parent = None THEN None
    ELSE LET keys == ChildKeys(sm[sm[k].parent])
             i == IndexIn(keys, k)
         IN  IF i > 1 THEN keys[i - 1] ELSE None

\* C14: next_node_up moves the cursor to the node just before the current
\* node in the visible order, which is the deepest last visible descendant
\* of the previous sibling if there is one and the parent otherwise; it
\* returns None, the cursor staying in place, exactly when the current node
\* is the root.
C14_MoveUpIsPredecessor ==
    ~panicked =>
        LET u == next_node_up(slot_map, current_node)
            order == VisibleOrder(slot_map, root)
            i == IndexIn(order, current_node)
            prev == PreviousSibling(slot_map, current_node)
        IN  /\ ~u.panic
            /\ i >= 1
            /\ (u.ret = None) = (current_node = root)
            /\ current_node = root => u.current_node = current_node
            /\ current_node # root =>
                  /\ u.ret = order[i - 1]
                  /\ u.current_node = u.ret
                  /\ u.ret = IF prev # None THEN DeepestLast(slot_map, prev)
                             ELSE slot_map[current_node].parent

\* next_node_up has brought the cursor down into the previous sibling of
\* the node it left, to the last child of that sibling: the node after the
\* current one in the visible order is the next sibling of its parent.
C14_Witness ==
    /\ ~panicked
    /\ op = "next_node_up"
    /\ ret = current_node
    /\ slot_map[current_node].parent # None
    /\ slot_map[current_node].parent # root
    /\ LET d == next_node_down(slot_map, current_node)
       IN  /\ ~d.panic
           /\ d.ret # None
           /\ PreviousSibling(slot_map, d.ret) = slot_map[current_node].parent

\* C15: next_node_down on an expanded composite without children behaves
\* as on a leaf at the same place: it returns the first following sibling
\* found walking up through the ancestors, and None only if there is none.
C15_EmptyCompositeMovesLikeLeaf ==
    (~panicked /\ Expanded(slot_map[current_node])
               /\ Len(ChildKeys(slot_map[current_node])) = 0) =>
        LET d == next_node_down(slot_map, current_node)
        IN  /\ ~d.panic
            /\ d.ret = next_sibling_upward(slot_map, current_node)
            /\ d.current_node = IF d.ret # None THEN d.ret ELSE current_node

\* C16: next_node_up never asks for the last child of an expanded composite
\* that has no child: neither the unwrap of the last entry of an empty
\* object nor the None of the last element of an empty array is reached in
\* the descent into the previous sibling.
C16_MoveUpNeverAsksLastOfEmpty ==
    ~panicked =>
        LET sm1 == [slot_map EXCEPT ![current_node].highlighted = FALSE]
            r == last_descendant(sm1, current_node, previous_key_of(sm1, current_node))
        IN  ~r.empty_last /\ ~r.panic

\* next_node_up has gone down through the last child of the previous
\* sibling and stopped on an empty composite, which is collapsed.
C16_Witness ==
    /\ ~panicked
    /\ op = "next_node_up"
    /\ ret = current_node
    /\ Collapsed(slot_map[current_node])
    /\ Len(ChildKeys(slot_map[current_node])) = 0
    /\ slot_map[current_node].parent # None
    /\ slot_map[current_node].parent # root
    /\ LET d == next_node_down(slot_map, current_node)
       IN  /\ d.ret # None
           /\ PreviousSibling(slot_map, d.ret) = slot_map[current_node].parent

\* C17: the scroll adjustment of a Down or Up key compares the thresholds
\* with the line of the node that is current after the move: after a Down
\* the offset grows by L - lower (up to the maximum offset) exactly when that
\* L > lower, after an Up it shrinks by upper - L exactly when that L < upper.
\* The thresholds are the ones of the last frame.
C17_ScrollUsesLineAfterMove ==
    [][ /\ (KeyDown /\ ~panicked') =>
              scroll_y' =
                 IF L' > bot_clamp
                 THEN LET moved == U16(scroll_y + U16(saturating_sub(L', bot_clamp)))
                      IN  IF moved > scroll_y_max THEN scroll_y_max ELSE moved
                 ELSE scroll_y
        /\ (KeyUp /\ ~panicked') =>
              scroll_y' =
                 IF L' < up_clamp
                 THEN saturating_sub(scroll_y, U16(saturating_sub(up_clamp, L')))
                 ELSE scroll_y
      ]_vars

RECURSIVE SumLines(_, _, _)

\* The sum of the numbers of lines of the renderings of keys[i..].
SumLines(sm, keys, i) ==
    IF i > Len(keys) THEN 0
    ELSE Len(to_text_inner(sm, 0, keys[i])) + SumLines(sm, keys, i + 1)

\* C18: a terminal and a collapsed composite render as one line; an expanded
\* composite with k >= 0 children renders as 2 + (the lines of its children)
\* lines, the first its opening bracket and the last its closing bracket
\* alone on the line (an expanded empty composite renders both brackets).
C18_RenderLineStructure ==
    \A k \in Nodes :
        LET node == slot_map[k]
            t == to_text_inner(slot_map, 0, k)
        IN  IF ~Expanded(node) THEN Len(t) = 1
            ELSE /\ Len(t) = 2 + SumLines(slot_map, ChildKeys(node), 1)
                 /\ line_string(t[1], 1) = Str(IF node.kind = "Array" THEN "[" ELSE "{")
                 /\ line_string(t[Len(t)], 1) = Str(IF node.kind = "Array" THEN "]" ELSE "}")

\* The first of the lines of text that hold a span of k.
FirstLineOf(text, k) == CHOOSE i \in LinesOf(text, k) : \A j \in LinesOf(text, k) : i <= j

\* C19: when every composite is expanded and has a child, find_current_line
\* returns the number of rendered lines before the first line of the current
\* node (0 at the root).
C19_LocatorWhenAllExpanded ==
    (/\ ~panicked
     /\ \A k \in Nodes : slot_map[k].tag = "NonTerminal" =>
            Expanded(slot_map[k]) /\ Len(ChildKeys(slot_map[k])) > 0) =>
        /\ LinesOf(to_text(slot_map, root), current_node) # {}
        /\ L = FirstLineOf(to_text(slot_map, root), current_node) - 1
        /\ current_node = root => L = 0

\* C20: every proper ancestor of the current node is expanded, so the
\* first step of next_node_up never finds the parent collapsed.
C20_AncestorsExpanded ==
    /\ \A a \in AncestorsOrSelf(slot_map, current_node) \ {current_node} :
            Expanded(slot_map[a])
    /\ slot_map[current_node].parent # None =>
            slot_map[slot_map[current_node].parent].visible

\* next_node_up has taken the cursor into a composite under the root while
\* another composite is collapsed.
C20_Witness ==
    /\ ~panicked
    /\ op = "next_node_up"
    /\ ret = current_node
    /\ slot_map[current_node].parent # None
    /\ slot_map[current_node].parent # root
    /\ \E k \in Nodes : Collapsed(slot_map[k])

\* C21: under any interleaving of the four operations no node other than
\* the current node is highlighted, so at most one node is; and no node is
\* highlighted only after a highlight toggle of the current node with no
\* move since: the step that leaves no node highlighted is a highlight
\* toggle, and every move that returns leaves a node highlighted.
C21_AtMostCurrentHighlighted ==
    /\ [](~panicked => Highlighted \subseteq {current_node})
    /\ [][ ~panicked' =>
             /\ (Highlighted # {} /\ Highlighted' = {}) =>
                    op' = "toggle_current_node_highlight" /\ current_node' = current_node
             /\ (op' \in Moves /\ <<slot_map, current_node, ret, op>>' # <<slot_map, current_node, ret, op>>)
                    => Highlighted' # {}
         ]_vars

\* After moves that took the cursor off the root, a highlight toggle has
\* left no node highlighted.
C21_Witness ==
    /\ ~panicked
    /\ op = "toggle_current_node_highlight"
    /\ current_node # root
    /\ Highlighted = {}
====
